---- MODULE Spec2Model ----
(***************************************************************************)
(* A state-machine model of emagpy's Problem class (src/src/emagpy/        *)
(* Problem.py): survey registration, setDepths, the row-wise inversion     *)
(* driver invert and the Gauss-Newton driver invertGN.                     *)
(*                                                                         *)
(* Python indices are 0-based; TLA+ sequences are 1-based.  The loop       *)
(* counters i and j keep their Python values and index with i+1, j+1.      *)
(***************************************************************************)
EXTENDS Integers, Sequences, FiniteSets, TLC

(***************************************************************************)
(* Bounds of the model.                                                    *)
(***************************************************************************)
\* largest number of surveys registered on one Problem
MaxSurveys == 2

\* the number of surveys of a time-lapse series
MaxSurveysGN == 4

(***************************************************************************)
(* Numbers.  Conductivities and readings are small integers (mS/m); NaN is *)
(* numpy's nan, which every arithmetic operation propagates.               *)
(***************************************************************************)
NaN == -999

IsNaN(x) == x = NaN

Add(a, b) == IF IsNaN(a) \/ IsNaN(b) THEN NaN ELSE a + b

Sub(a, b) == IF IsNaN(a) \/ IsNaN(b) THEN NaN ELSE a - b

Mul(a, b) == IF IsNaN(a) \/ IsNaN(b) THEN NaN ELSE a * b

Abs(a) == IF IsNaN(a) THEN NaN ELSE IF a < 0 THEN -a ELSE a

RECURSIVE Sum(_)
\* np.sum of a vector
Sum(v) == IF v = <<>> THEN 0 ELSE Add(v[1], Sum(Tail(v)))

\* np.zeros(n)
Zeros(n) == [k \in 1..n |-> 0]

\* np.zeros(n)*np.nan
NaNs(n) == [k \in 1..n |-> NaN]

\* a vector with a nan in it
HasNaN(v) == \E k \in 1..Len(v) : IsNaN(v[k])

Min(a, b) == IF a < b THEN a ELSE b

Max(a, b) == IF a > b THEN a ELSE b

(***************************************************************************)
(* Surveys (emagpy.Survey, imported at Problem.py:16).  A survey holds its *)
(* coil names, the per-coil orientation, spacing, frequency and height,    *)
(* and a table df with one row per location and one column per coil.       *)
(***************************************************************************)
MkSurvey(cl, cp, cs, f, h, rows) ==
    [coils |-> cl, cpos |-> cp, cspacing |-> cs,
     freqs |-> [k \in 1..Len(cl) |-> f], hx |-> [k \in 1..Len(cl) |-> h],
     df |-> rows]

\* the csv files createSurvey can be given, by name: Survey(fname, freq, hx)
Survey(fname) ==
    CASE fname = "base" ->
           MkSurvey(<<"VCP1", "VCP2">>, <<"vcp", "vcp">>, <<1, 2>>, 1, 0,
                    << <<10, 25>>, <<12, 30>> >>)
      [] fname = "gap" ->
           \* same coils as base, another height, a missing reading in row 0
           MkSurvey(<<"VCP1", "VCP2">>, <<"vcp", "vcp">>, <<1, 2>>, 1, 1,
                    << <<NaN, 25>>, <<12, 28>> >>)
      [] fname = "short" ->
           \* the first coil of base only, one location
           MkSurvey(<<"VCP1">>, <<"vcp">>, <<1>>, 1, 0,
                    << <<10>> >>)
      [] fname = "other" ->
           \* another coil at position 0
           MkSurvey(<<"HCP1", "VCP2">>, <<"hcp", "vcp">>, <<1, 2>>, 1, 0,
                    << <<14, 25>>, <<16, 30>> >>)

Files == {"base", "gap", "short", "other"}

\* the Lo/Hi file pairs importGF can be given: Survey().importGF(...)
GFSurvey(fname) ==
    MkSurvey(<<"HCP1", "HCP2">>, <<"hcp", "hcp">>, <<1, 2>>, 2, 0,
             << <<20, 40>> >>)

GFFiles == {"gf"}

\* the column of coil c in a survey's table, 0 when the table has none
ColumnOf(s, c) ==
    IF \E k \in 1..Len(s.coils) : s.coils[k] = c
    THEN CHOOSE k \in 1..Len(s.coils) : s.coils[k] = c
    ELSE 0

\* survey.df[cl] raises KeyError when a name of cl is no column
HasColumns(s, cl) == \A k \in 1..Len(cl) : ColumnOf(s, cl[k]) # 0

\* survey.df[cl].values
DfValues(s, cl) ==
    [r \in 1..Len(s.df) |-> [k \in 1..Len(cl) |-> s.df[r][ColumnOf(s, cl[k])]]]

VARIABLES
    depths0,    \* self.depths0
    conds0,     \* self.conds0
    depths,     \* self.depths, <<>> while the attribute is not set
    surveys,    \* self.surveys
    coils,      \* self.coils, <<>> while the attribute is not set
    freqs,      \* self.freqs
    cspacing,   \* self.cspacing
    cpos,       \* self.cpos
    hx,         \* self.hx
    models,     \* self.models
    rmses,      \* self.rmses
    call,       \* the last call made on the Problem: its name, argument and exception
    pc,         \* where the running call is: "idle" when none runs
    run,        \* the arguments of the running (or last) invert / invertGN
    i,          \* the survey loop counter
    j,          \* the row loop counter
    model,      \* the local array model of the survey being inverted
    rmse,       \* the local array rmse of the survey being inverted
    log         \* what the running (or last) inversion did, in order

vars == <<depths0, conds0, depths, surveys, coils, freqs, cspacing, cpos, hx,
          models, rmses, call, pc, run, i, j, model, rmse, log>>

config == <<coils, freqs, cspacing, cpos, hx>>

loopvars == <<pc, run, i, j, model, rmse, log>>

NoRun == [op |-> "none", forwardModel |-> "CS", regularization |-> "l2",
          alpha |-> 0, beta |-> 0, dump |-> "print", pin |-> FALSE,
          alpha_ref |-> 0]

\* Problem.__init__
Init ==
    /\ depths0 = <<1, 2>>
    /\ conds0 = <<20, 20, 20>>
    /\ depths = <<>>
    /\ surveys = <<>>
    /\ coils = <<>>
    /\ freqs = <<>>
    /\ cspacing = <<>>
    /\ cpos = <<>>
    /\ hx = <<>>
    /\ models = <<>>
    /\ rmses = <<>>
    /\ call = [op |-> "__init__", arg |-> <<>>, exc |-> "none"]
    /\ pc = "idle"
    /\ run = NoRun
    /\ i = 0
    /\ j = 0
    /\ model = <<>>
    /\ rmse = <<>>
    /\ log = <<>>

(***************************************************************************)
(* Survey registration.                                                    *)
(***************************************************************************)
\* [a == b for a, b in zip(self.coils, survey.coils)]: zip stops at the shorter list
ZipCheck(a, b) == [k \in 1..Min(Len(a), Len(b)) |-> a[k] = b[k]]

\* all(check) is True
AllTrue(check) == \A k \in 1..Len(check) : check[k]

\* the body of createSurvey for an already built survey
Register(survey) ==
    IF Len(surveys) = 0
    THEN /\ coils' = survey.coils
         /\ freqs' = survey.freqs
         /\ cspacing' = survey.cspacing
         /\ cpos' = survey.cpos
         /\ hx' = survey.hx
         /\ surveys' = Append(surveys, survey)
    ELSE /\ UNCHANGED config
         /\ surveys' = IF AllTrue(ZipCheck(coils, survey.coils))
                       THEN Append(surveys, survey)
                       ELSE surveys

\* createSurvey(fname) for a file of the set files, while fewer than max
\* surveys are registered
CreateSurvey(files, max) ==
    /\ pc = "idle"
    /\ Len(surveys) < max
    /\ \E fname \in files :
         /\ Register(Survey(fname))
         /\ call' = [op |-> "createSurvey", arg |-> <<fname>>, exc |-> "none"]
    /\ UNCHANGED <<depths0, conds0, depths, models, rmses, loopvars>>

createSurvey == CreateSurvey(Files, MaxSurveys)

importGF ==
    /\ pc = "idle"
    /\ Len(surveys) < MaxSurveys
    /\ \E fname \in GFFiles :
         LET survey == GFSurvey(fname) IN
         /\ coils' = survey.coils
         /\ freqs' = survey.freqs
         /\ cspacing' = survey.cspacing
         /\ cpos' = survey.cpos
         /\ hx' = survey.hx
         /\ surveys' = Append(surveys, survey)
         /\ call' = [op |-> "importGF", arg |-> <<fname>>, exc |-> "none"]
    /\ UNCHANGED <<depths0, conds0, depths, models, rmses, loopvars>>

(***************************************************************************)
(* setDepths.                                                              *)
(***************************************************************************)
\* the depth profiles setDepths is called with
DepthInputs == {<<>>, <<1>>, <<1, 2>>, <<2, 1>>, <<1, 1>>}

\* np.diff(depths) > 0
DiffPositive(d) == [k \in 1..(Len(d) - 1) |-> d[k + 1] - d[k] > 0]

\* the exception setDepths raises for d, "none" when it raises nothing
setDepthsRaises(d) ==
    IF Len(d) = 0 THEN "ValueError"
    ELSE IF AllTrue(DiffPositive(d)) THEN "ValueError"
    ELSE "none"

setDepths ==
    /\ pc = "idle"
    /\ \E d \in DepthInputs :
         /\ call' = [op |-> "setDepths", arg |-> d, exc |-> setDepthsRaises(d)]
         /\ depths' = IF setDepthsRaises(d) = "none" THEN d ELSE depths
    /\ UNCHANGED <<depths0, conds0, surveys, config, models, rmses, loopvars>>

(***************************************************************************)
(* Forward models and regularization operators (emagpy.invertHelper,       *)
(* imported at Problem.py:15).  A coil of spacing s senses the ground down *)
(* to DepthOfInvestigation below the instrument; a layer contributes its   *)
(* conductivity weighted by the thickness of the layer in that range.      *)
(***************************************************************************)
DepthOfInvestigation(s, o) == IF o = "hcp" THEN 2 * s ELSE s

\* the layer boundaries, with the leading 0 fCS adds when it is absent
Boundaries(d) == IF Len(d) > 0 /\ d[1] = 0 THEN d ELSE <<0>> \o d

\* thickness of layer l (1-based) sensed by a coil of range doi held h above ground
Sensitivity(d, l, doi, h) ==
    LET b == Boundaries(d)
        top == h + b[l]
        bottom == IF l = Len(b) THEN Max(doi, top) ELSE h + b[l + 1]
    IN  Max(0, Min(doi, bottom) - Min(doi, top))

\* fCS(p, depths, cspacing, cpos, hx): cumulative sensitivity, one value per coil
fCS(p, d, cs, cp, h) ==
    [k \in 1..Len(cs) |->
        Sum([l \in 1..Len(p) |->
               Mul(Sensitivity(d, l, DepthOfInvestigation(cs[k], cp[k]), h), p[l])])]

\* fMaxwellECa(p, depths, cspacing, cpos, f, hx): low induction number solution
fMaxwellECa(p, d, cs, cp, f, h) ==
    [k \in 1..Len(cs) |-> Add(fCS(p, d, cs, cp, h)[k], f * cs[k])]

\* fMaxwellQ(p, depths, cspacing, cpos, f, hx): full solution
fMaxwellQ(p, d, cs, cp, f, h) ==
    [k \in 1..Len(cs) |-> Add(fCS(p, d, cs, cp, h)[k], f * cs[k] * cs[k] + 1)]

\* buildSecondDiff(n): second differences, one-sided on the boundary rows
buildSecondDiff(n) ==
    [r \in 1..n |-> [c \in 1..n |->
        IF r = c THEN (IF r = 1 \/ r = n THEN 1 ELSE 2)
        ELSE IF r - c = 1 \/ c - r = 1 THEN -1 ELSE 0]]

\* np.dot(M, v) for a matrix M (a sequence of rows) and a vector v
Dot(M, v) == [r \in 1..Len(M) |-> Sum([c \in 1..Len(v) |-> Mul(M[r][c], v[c])])]

(***************************************************************************)
(* Reals that are square roots of a quotient, as invert computes them:     *)
(* np.sqrt(num/den) is kept as the reduced quotient <<num, den>> under the *)
(* root, nan as <<NaN, 1>>.                                                *)
(***************************************************************************)
RECURSIVE GCD(_, _)
GCD(a, b) == IF b = 0 THEN a ELSE GCD(b, a % b)

NaNRoot == <<NaN, 1>>

\* np.sqrt(num/den), for num >= 0 and den > 0
SqrtOf(num, den) ==
    IF IsNaN(num) THEN NaNRoot
    ELSE LET g == GCD(num, den) IN <<num \div g, den \div g>>

\* a < b on such reals; any comparison with nan is False
RootLess(a, b) ==
    /\ ~IsNaN(a[1])
    /\ ~IsNaN(b[1])
    /\ a[1] * b[2] < b[1] * a[2]

(***************************************************************************)
(* invert: the closures of lines 175-204.                                  *)
(***************************************************************************)
\* every name of the docstring of invert, lines 139-143
ForwardModelsListed == {"CS", "FS", "FSandrade", "CSgn", "CSgndiff"}

ForwardModels == {"CS", "FS", "FSandrade"}

\* fmodel(p) for the forward model named fm
fmodel(fm, p) ==
    CASE fm = "CS" -> fCS(p, depths0, cspacing, cpos, hx[1])
      [] fm = "FS" -> fMaxwellECa(p, depths0, cspacing, cpos, freqs[1], hx[1])
      [] fm = "FSandrade" -> fMaxwellQ(p, depths0, cspacing, cpos, freqs[1], hx[1])

\* dataMisfit(p, app) of invert
dataMisfit(fm, p, app) == [k \in 1..Len(app) |-> Sub(fmodel(fm, p)[k], app[k])]

\* modelMisfit(p)
modelMisfit(p) == Dot(buildSecondDiff(Len(conds0)), p)

\* np.sum(np.abs(v)) for l1, np.sum(v**2) for l2
Norm(reg, v) ==
    IF reg = "l1" THEN Sum([k \in 1..Len(v) |-> Abs(v[k])])
    ELSE Sum([k \in 1..Len(v) |-> Mul(v[k], v[k])])

\* objfunc(p, app, pn): the three terms brought to the denominator len(app)*len(p)
objfunc(r, p, app, pn) ==
    SqrtOf(Add(Mul(Norm(r.regularization, dataMisfit(r.forwardModel, p, app)), Len(p)),
               Mul(Add(Mul(r.alpha, Norm(r.regularization, modelMisfit(p))),
                       Mul(r.beta, Norm(r.regularization,
                                        [k \in 1..Len(p) |-> Sub(p[k], pn[k])]))),
                   Len(app))),
           Len(app) * Len(p))

\* the objective at the result: the misfit with the regularization in it
rowRmseRegularized(r, out, app) == objfunc(r, out, app, out)

\* np.sqrt(np.sum(dataMisfit(out, app)**2)/len(app)), line 226
rowRmse(r, out, app) ==
    SqrtOf(Sum([k \in 1..Len(app) |->
                  Mul(dataMisfit(r.forwardModel, out, app)[k],
                      dataMisfit(r.forwardModel, out, app)[k])]),
           Len(app))

(***************************************************************************)
(* scipy.optimize.minimize(objfunc, x0, args=(app, pn), ...).  The         *)
(* optimizer returns its best point: x0 itself or a point it tried, never  *)
(* one that objfunc ranks above x0.  The points it tries are finite.       *)
(***************************************************************************)
\* the points the optimizer tries besides x0
TrialPoints == {<<10, 20, 30>>, <<30, 20, 10>>}

minimize(r, x0, app, pn) ==
    {x \in TrialPoints \cup {x0} :
        ~RootLess(objfunc(r, x0, app, pn), objfunc(r, x, app, pn))}

(***************************************************************************)
(* The log of an inversion: one entry per progress message, optimizer or   *)
(* solver call and row written, in the order the code does them.           *)
(***************************************************************************)
Entry(ev, si, rj, a, b) == [ev |-> ev, i |-> si, j |-> rj, a |-> a, b |-> b]

\* dump('Survey', i+1, '/', len(self.surveys)) through the callable r.dump
DumpSurvey(r, si) == Entry("dump", si, -1, <<r.dump>>, <<si + 1, Len(surveys)>>)

\* the row message printed instead of handed to dump
DumpRowPrinted(r, si, rj, n) == Entry("print", si, rj, <<"print">>, <<rj + 1, n>>)

\* dump(j+1, '/', apps.shape[0], 'inverted')
DumpRow(r, si, rj, n) == Entry("dump", si, rj, <<r.dump>>, <<rj + 1, n>>)

(***************************************************************************)
(* invert.                                                                 *)
(***************************************************************************)
\* invert(forwardModel, regularization, alpha, beta, dump)
InvertArgs(fm, reg, a, b, d) ==
    [op |-> "invert", forwardModel |-> fm, regularization |-> reg, alpha |-> a,
     beta |-> b, dump |-> d, pin |-> FALSE, alpha_ref |-> 0]

\* the calls of invert: the defaults first (dump=None makes print the callable)
InvertInputs ==
    {InvertArgs("CS", "l2", 1, 0, "print"),
     InvertArgs("CS", "l1", 0, 1, "callback"),
     InvertArgs("FS", "l1", 1, 1, "callback"),
     InvertArgs("FS", "l2", 0, 0, "print"),
     InvertArgs("FSandrade", "l2", 0, 1, "callback"),
     InvertArgs("CSgn", "l2", 1, 0, "callback"),
     InvertArgs("CSgndiff", "l2", 1, 0, "print")}

\* no reset: the results of earlier runs stay
ResetNothing(results) == results

\* the row stored at the top of the array, whatever the row is
WriteRowFirst(arr, rj, v) == [arr EXCEPT ![1] = v]

\* model[j,:] = out and rmse[j] = ..., lines 225-226 and 278-279
WriteRow(arr, rj, v) == [arr EXCEPT ![rj + 1] = v]

\* self.models = [] and self.rmses = [] on entry, lines 162-163 and 246-247
Reset(results) == <<>>

\* lines 162-175: reset the results, then enter the survey loop or return
invert ==
    /\ pc = "idle"
    /\ \E r \in InvertInputs :
         /\ run' = r
         /\ models' = Reset(models)
         /\ rmses' = Reset(rmses)
         /\ log' = <<>>
         /\ i' = 0
         /\ j' = 0
         /\ model' = <<>>
         /\ rmse' = <<>>
         /\ IF r.forwardModel \in ForwardModels
            THEN /\ pc' = "invert_survey"
                 /\ call' = [op |-> "invert", arg |-> <<>>, exc |-> "running"]
            ELSE /\ pc' = "idle"
                 /\ call' = [op |-> "invert", arg |-> <<>>, exc |-> "none"]
    /\ UNCHANGED <<depths0, conds0, depths, surveys, config>>

\* the call returns
Return ==
    /\ pc' = "idle"
    /\ call' = [call EXCEPT !.exc = "none"]
    /\ i' = 0
    /\ j' = 0
    /\ model' = <<>>
    /\ rmse' = <<>>

\* the call raises exception e
Raise(e) ==
    /\ pc' = "idle"
    /\ call' = [call EXCEPT !.exc = e]
    /\ i' = 0
    /\ j' = 0
    /\ model' = <<>>
    /\ rmse' = <<>>

\* lines 208-212: the head of the survey loop
invertSurvey ==
    /\ pc = "invert_survey"
    /\ IF i = Len(surveys)
       THEN /\ Return
            /\ UNCHANGED log
       ELSE IF ~HasColumns(surveys[i + 1], coils)
       THEN /\ Raise("KeyError")
            /\ UNCHANGED log
       ELSE LET apps == DfValues(surveys[i + 1], coils) IN
            /\ rmse' = [r \in 1..Len(apps) |-> NaNRoot]
            /\ model' = [r \in 1..Len(apps) |-> NaNs(Len(conds0))]
            /\ log' = Append(log, DumpSurvey(run, i))
            /\ j' = 0
            /\ pc' = "invert_row"
            /\ UNCHANGED <<call, i>>
    /\ UNCHANGED <<depths0, conds0, depths, surveys, config, models, rmses, run>>

\* a warm start: the profile of the row before
x0Warm(si, rj) == IF rj = 0 THEN conds0 ELSE model[rj]

\* the initial guess handed to minimize, line 220
x0Of(si, rj) == conds0

\* the previous profile carried over from the survey before
pnCarried(rj) ==
    IF rj > 0 THEN model[rj]
    ELSE IF Len(models) = 0 THEN Zeros(Len(conds0))
    ELSE models[Len(models)][Len(models[Len(models)])]

\* the previous profile handed to objfunc, lines 215-218
pnOf(rj) == IF rj = 0 THEN Zeros(Len(conds0)) ELSE model[rj]

\* lines 213-227: one row
invertRow ==
    /\ pc = "invert_row"
    /\ j < Len(surveys[i + 1].df)
    /\ LET apps == DfValues(surveys[i + 1], coils)
           app == apps[j + 1]
           pn == pnOf(j)
           x0 == x0Of(i, j)
           called == Append(log, Entry("minimize", i, j, x0, pn))
       IN  \/ /\ Raise("OptimizerError")
              /\ log' = called
           \/ \E out \in minimize(run, x0, app, pn) :
                /\ model' = WriteRow(model, j, out)
                /\ rmse' = WriteRow(rmse, j, rowRmse(run, out, app))
                /\ log' = called \o <<Entry("write", i, j, out, rowRmse(run, out, app)),
                                      DumpRow(run, i, j, Len(apps))>>
                /\ j' = j + 1
                /\ UNCHANGED <<pc, call, i>>
    /\ UNCHANGED <<depths0, conds0, depths, surveys, config, models, rmses, run>>

\* lines 228-229: the survey is done
invertAppend ==
    /\ pc = "invert_row"
    /\ j = Len(surveys[i + 1].df)
    /\ models' = Append(models, model)
    /\ rmses' = Append(rmses, rmse)
    /\ i' = i + 1
    /\ pc' = "invert_survey"
    /\ UNCHANGED <<depths0, conds0, depths, surveys, config, call, run, j, model, rmse, log>>

(***************************************************************************)
(* invertGN: the Gauss-Newton driver.  Matrices are sequences of rows.     *)
(***************************************************************************)
\* buildJacobian(depths, cspacing, cpos): one row per coil, one column per layer
buildJacobian(d, cs, cp) ==
    [k \in 1..Len(cs) |-> [l \in 1..(Len(d) + 1) |->
        Sensitivity(d, l, DepthOfInvestigation(cs[k], cp[k]), 0)]]

\* np.dot(J.T, v) for a vector v with one value per row of J
DotT(J, v) ==
    [c \in 1..Len(J[1]) |-> Sum([r \in 1..Len(J) |-> Mul(J[r][c], v[r])])]

\* np.dot(J.T, J)
Gram(J) ==
    [r \in 1..Len(J[1]) |-> [c \in 1..Len(J[1]) |->
        Sum([k \in 1..Len(J) |-> J[k][r] * J[k][c]])]]

\* matrix M without row 1 and column c
Minor(M, c) ==
    [r \in 1..(Len(M) - 1) |-> [q \in 1..(Len(M) - 1) |->
        M[r + 1][IF q < c THEN q ELSE q + 1]]]

RECURSIVE Det(_)
\* the determinant, expanded along the first row
Det(M) ==
    IF Len(M) = 1 THEN M[1][1]
    ELSE Sum([c \in 1..Len(M) |->
                Mul(IF c % 2 = 1 THEN M[1][c] ELSE Sub(0, M[1][c]),
                    Det(Minor(M, c)))])

\* matrix M with column c replaced by the vector v
WithColumn(M, c, v) ==
    [r \in 1..Len(M) |-> [q \in 1..Len(M) |-> IF q = c THEN v[r] ELSE M[r][q]]]

\* a / b rounded to the nearest integer, for b # 0
RoundDiv(a, b) ==
    IF IsNaN(a) \/ IsNaN(b) THEN NaN
    ELSE LET n == IF b < 0 THEN -a ELSE a
             d == IF b < 0 THEN -b ELSE b
         IN  (2 * n + d) \div (2 * d)

\* np.linalg.solve(LHS, RHS) for a regular LHS, by Cramer's rule, in whole mS/m
solve(LHS, RHS) ==
    [c \in 1..Len(LHS) |-> RoundDiv(Det(WithColumn(LHS, c, RHS)), Det(LHS))]

\* np.nanmean(app) in whole mS/m, nan when every reading is nan
nanmean(app) ==
    LET seen == {k \in 1..Len(app) : ~IsNaN(app[k])}
    IN  IF seen = {} THEN NaN
        ELSE RoundDiv(Sum([k \in 1..Len(app) |-> IF k \in seen THEN app[k] ELSE 0]),
                      Cardinality(seen))

\* dataMisfit(p, app) of invertGN, line 255
dataMisfitGN(p, app) ==
    [k \in 1..Len(app) |-> Sub(app[k], fCS(p, depths0, cspacing, cpos, hx[1])[k])]

\* LHS of line 270, with the pinned corner of line 273
LHSOf(r, J, L) ==
    [a \in 1..Len(L) |-> [b \in 1..Len(L) |->
        IF r.pin /\ a = Len(L) /\ b = Len(L) THEN r.alpha_ref
        ELSE Gram(J)[a][b] + r.alpha * L[a][b]]]

\* RHS of line 271, with the pinned last entry of line 274: cond[i,-1] is row i
\* of the column vector cond
RHSOf(r, J, L, cond, app, si) ==
    [a \in 1..Len(L) |->
        IF r.pin /\ a = Len(L) THEN Mul(r.alpha_ref, cond[si + 1])
        ELSE Sub(DotT(J, dataMisfitGN(cond, app))[a], Mul(r.alpha, Dot(L, cond)[a]))]

\* np.sqrt(np.sum(dataMisfit(out, app)**2)/len(app)), line 279
rowRmseGN(out, app) ==
    SqrtOf(Sum([k \in 1..Len(app) |->
                  Mul(dataMisfitGN(out, app)[k], dataMisfitGN(out, app)[k])]),
           Len(app))

\* print('Survey', i+1, '/', len(self.surveys))
PrintSurvey(si) == Entry("print", si, -1, <<"print">>, <<si + 1, Len(surveys)>>)

\* print(j+1, '/', apps.shape[0], 'inverted')
PrintRow(si, rj, n) == Entry("print", si, rj, <<"print">>, <<rj + 1, n>>)

\* invertGN(alpha, alpha_ref)
GNArgs(a, p, ar) ==
    [op |-> "invertGN", forwardModel |-> "CS", regularization |-> "l2", alpha |-> a,
     beta |-> 0, dump |-> "print", pin |-> p, alpha_ref |-> ar]

\* the calls of invertGN: the defaults first (alpha_ref=None pins nothing)
GNInputs == {GNArgs(1, FALSE, 0), GNArgs(0, FALSE, 0), GNArgs(1, TRUE, 5)}

\* lines 246-249: reset the results and build J; self.cspacing is no attribute
\* of a Problem without surveys
invertGN ==
    /\ pc = "idle"
    /\ \E r \in GNInputs :
         /\ run' = r
         /\ models' = Reset(models)
         /\ rmses' = Reset(rmses)
         /\ log' = <<>>
         /\ i' = 0
         /\ j' = 0
         /\ model' = <<>>
         /\ rmse' = <<>>
         /\ IF Len(surveys) = 0
            THEN /\ pc' = "idle"
                 /\ call' = [op |-> "invertGN", arg |-> <<>>, exc |-> "AttributeError"]
            ELSE /\ pc' = "gn_survey"
                 /\ call' = [op |-> "invertGN", arg |-> <<>>, exc |-> "running"]
    /\ UNCHANGED <<depths0, conds0, depths, surveys, config>>

\* lines 259-263: the head of the survey loop
invertGNSurvey ==
    /\ pc = "gn_survey"
    /\ IF i = Len(surveys)
       THEN /\ Return
            /\ UNCHANGED log
       ELSE IF ~HasColumns(surveys[i + 1], coils)
       THEN /\ Raise("KeyError")
            /\ UNCHANGED log
       ELSE LET apps == DfValues(surveys[i + 1], coils) IN
            /\ rmse' = [r \in 1..Len(apps) |-> NaNRoot]
            /\ model' = [r \in 1..Len(apps) |-> NaNs(Len(conds0))]
            /\ log' = Append(log, PrintSurvey(i))
            /\ j' = 0
            /\ pc' = "gn_row"
            /\ UNCHANGED <<call, i>>
    /\ UNCHANGED <<depths0, conds0, depths, surveys, config, models, rmses, run>>

\* the starting profile taken from the row inverted before, when there is one
condWarm(app) ==
    IF j > 0 THEN model[j] ELSE [k \in 1..Len(conds0) |-> nanmean(app)]

\* the starting profile of a row, line 266
condOf(app) == [k \in 1..Len(conds0) |-> nanmean(app)]

\* lines 264-280: one row
invertGNRow ==
    /\ pc = "gn_row"
    /\ j < Len(surveys[i + 1].df)
    /\ LET apps == DfValues(surveys[i + 1], coils)
           app == apps[j + 1]
           J == buildJacobian(depths0, cspacing, cpos)
           L == buildSecondDiff(Len(J[1]))
           cond == condOf(app)
           LHS == LHSOf(run, J, L)
       IN  IF run.pin /\ i >= Len(cond)
           THEN /\ Raise("IndexError")
                /\ UNCHANGED log
           ELSE LET RHS == RHSOf(run, J, L, cond, app, i)
                    called == Append(log, Entry("solve", i, j, cond, RHS))
                IN  IF Det(LHS) = 0
                    THEN /\ Raise("LinAlgError")
                         /\ log' = called
                    ELSE LET solution == solve(LHS, RHS)
                             out == [k \in 1..Len(cond) |-> Add(cond[k], solution[k])]
                         IN  /\ model' = WriteRow(model, j, out)
                             /\ rmse' = WriteRow(rmse, j, rowRmseGN(out, app))
                             /\ log' = called \o
                                  <<Entry("write", i, j, out, rowRmseGN(out, app)),
                                    PrintRow(i, j, Len(apps))>>
                             /\ j' = j + 1
                             /\ UNCHANGED <<pc, call, i>>
    /\ UNCHANGED <<depths0, conds0, depths, surveys, config, models, rmses, run>>

\* lines 281-282: the survey is done
invertGNAppend ==
    /\ pc = "gn_row"
    /\ j = Len(surveys[i + 1].df)
    /\ models' = Append(models, model)
    /\ rmses' = Append(rmses, rmse)
    /\ i' = i + 1
    /\ pc' = "gn_survey"
    /\ UNCHANGED <<depths0, conds0, depths, surveys, config, call, run, j, model, rmse, log>>

Next ==
    \/ createSurvey
    \/ importGF
    \/ setDepths
    \/ invert
    \/ invertSurvey
    \/ invertRow
    \/ invertAppend
    \/ invertGN
    \/ invertGNSurvey
    \/ invertGNRow
    \/ invertGNAppend

Spec == Init /\ [][Next]_vars

(***************************************************************************)
(* Time-lapse use of invertGN: more surveys than layers, all of one        *)
(* configuration.                                                          *)
(***************************************************************************)
\* the files of a time-lapse series
GNFiles == {"base", "gap"}

createSurveyGN == CreateSurvey(GNFiles, MaxSurveysGN)

NextGN ==
    \/ createSurveyGN
    \/ invertGN
    \/ invertGNSurvey
    \/ invertGNRow
    \/ invertGNAppend

SpecGN == Init /\ [][NextGN]_vars

(***************************************************************************)
(* Properties.                                                             *)
(***************************************************************************)
\* a depth profile whose every value is below all the values after it
StrictlyIncreasing(d) == \A a, b \in 1..Len(d) : a < b => d[a] < d[b]

\* the last call was setDepths(d) and it has ended
SetDepthsEnded == pc = "idle" /\ call.op = "setDepths"

\* C1: setDepths called with a depth profile that is not strictly increasing
\* raises ValueError and does not store the profile.
C1_NonIncreasingRejected ==
    (SetDepthsEnded /\ ~StrictlyIncreasing(call.arg))
        => (call.exc = "ValueError" /\ depths # call.arg)

\* C2: setDepths called with a non-empty strictly increasing profile returns
\* without error and stores exactly that profile; hence every stored profile
\* is non-empty and strictly increasing.
C2_IncreasingStored ==
    /\ (SetDepthsEnded /\ Len(call.arg) > 0 /\ StrictlyIncreasing(call.arg))
          => (call.exc = "none" /\ depths = call.arg)
    /\ (SetDepthsEnded /\ call.exc = "none")
          => (Len(depths) > 0 /\ StrictlyIncreasing(depths))

\* survey s has the coil configuration stored on the Problem
SameConfiguration(s) ==
    /\ s.coils = coils
    /\ s.cspacing = cspacing
    /\ s.cpos = cpos
    /\ s.freqs = freqs
    /\ s.hx = hx

\* C3: every registered survey has the coil configuration stored on the
\* Problem (coils, cspacing, cpos, freqs, hx).
C3_SurveysShareConfiguration ==
    \A k \in 1..Len(surveys) : SameConfiguration(surveys[k])

\* C4: createSurvey on a Problem that holds a survey, given a survey whose
\* coil list differs from the Problem's, leaves the surveys and the stored
\* configuration unchanged.
C4_MismatchRejected ==
    [][(/\ pc = "idle"
        /\ call'.op = "createSurvey"
        /\ Len(surveys) >= 1
        /\ Survey(call'.arg[1]).coils # coils)
          => (surveys' = surveys /\ config' = config /\ call'.exc = "none")]_vars

\* the readings of row r (1-based) of registered survey s (1-based), survey.df[self.coils]
Obs(s, r) == DfValues(surveys[s], coils)[r]

\* invert is running, or was the last call and no other call followed
InInvert == call.op = "invert" /\ run.forwardModel \in ForwardModels

\* the last call was invert or invertGN and it returned
Completed ==
    /\ pc = "idle"
    /\ call.exc = "none"
    /\ \/ InInvert
       \/ call.op = "invertGN"

\* the positions of the log entries of kind ev for survey si, row rj (0-based)
At(ev, si, rj) ==
    {n \in 1..Len(log) : log[n].ev = ev /\ log[n].i = si /\ log[n].j = rj}

RmseMatches(q, p, obs) ==
    LET pred == fmodel(run.forwardModel, p)
        sq == [k \in 1..Len(obs) |-> (pred[k] - obs[k]) * (pred[k] - obs[k])]
    IN  IF HasNaN(obs) \/ HasNaN(p) THEN IsNaN(q[1])
        ELSE /\ ~IsNaN(q[1])
             /\ q[1] * Len(obs) = q[2] * Sum(sq)

\* C6: every RMSE recorded by invert is sqrt(mean over coils of
\* (forward(result) - observed)^2) for the recorded profile and the selected
\* forward model, a function of result and observed only.
C6_RmseIsDataMisfit ==
    InInvert =>
      /\ \A s \in 1..Len(models) : \A r \in 1..Len(models[s]) :
           RmseMatches(rmses[s][r], models[s][r], Obs(s, r))
      /\ pc = "invert_row" =>
           \A r \in 1..j : RmseMatches(rmse[r], model[r], Obs(i + 1, r))

\* C6 witness: a run with alpha > 0 recorded a rough profile with a finite,
\* non-zero RMSE.
C6_Witness ==
    /\ InInvert
    /\ run.alpha > 0
    /\ \E s \in 1..Len(models) : \E r \in 1..Len(models[s]) :
         /\ models[s][r][1] # models[s][r][2]
         /\ ~IsNaN(rmses[s][r][1])
         /\ rmses[s][r][1] > 0

\* C7: when invert has returned, the result row of every location with a
\* missing reading holds NaN conductivities, and every other row is inverted.
C7_MissingReadingGivesNaNRow ==
    (Completed /\ InInvert) =>
      /\ Len(models) = Len(surveys)
      /\ \A s \in 1..Len(models) : \A r \in 1..Len(models[s]) :
           IF HasNaN(Obs(s, r)) THEN models[s][r] = NaNs(Len(conds0))
           ELSE ~HasNaN(models[s][r])

\* the results are those of the last run: one array per survey, one row per
\* measurement row, one column per layer, each row as that run wrote it
ResultsOfLastRun ==
    /\ Len(models) = Len(surveys)
    /\ Len(rmses) = Len(surveys)
    /\ \A s \in 1..Len(surveys) :
         /\ Len(models[s]) = Len(surveys[s].df)
         /\ Len(rmses[s]) = Len(surveys[s].df)
         /\ \A r \in 1..Len(surveys[s].df) :
              /\ Len(models[s][r]) = Len(conds0)
              /\ Cardinality(At("write", s - 1, r - 1)) = 1
              /\ \A n \in At("write", s - 1, r - 1) :
                   models[s][r] = log[n].a /\ rmses[s][r] = log[n].b

\* C8: after a completed invert or invertGN, models and rmses hold exactly the
\* results of that call, one per registered survey in survey order, with one
\* row per measurement row and one column per layer of conds0.
C8_OnlyLastRun == Completed => ResultsOfLastRun

\* C8 witness: a run over two surveys has completed.
C8_Witness == Completed /\ Len(surveys) = 2 /\ Len(models) = 2

\* the progress messages of survey si come in order: one for the survey before
\* any of its rows is worked on, one for each row after the row is written
ProgressInOrder(ev) ==
    /\ \A n \in 1..Len(log) :
         log[n].ev \in {"minimize", "solve", "write"} =>
           \E m \in At(ev, log[n].i, -1) : m < n
    /\ \A n \in 1..Len(log) :
         log[n].ev \in {"dump", "print"} =>
           Cardinality(At(log[n].ev, log[n].i, log[n].j)) = 1
    /\ \A n \in 1..Len(log) :
         log[n].ev = "write" =>
           \E m \in At(ev, log[n].i, log[n].j) : m > n
    /\ \A n \in 1..Len(log) :
         (log[n].ev = ev /\ log[n].j >= 0) =>
           \E m \in At("write", log[n].i, log[n].j) : m < n

\* C9 as claimed: in invert and in invertGN alike the progress goes through
\* the callback, once per survey and once per row, and nothing is printed past it.
C9_ProgressThroughCallback ==
    (InInvert \/ call.op = "invertGN") =>
      /\ ProgressInOrder("dump")
      /\ \A n \in 1..Len(log) : log[n].ev # "print"
      /\ \A n \in 1..Len(log) : log[n].ev = "dump" => log[n].a = <<run.dump>>

\* C9, amended: invert reports through the callable dump, once per survey
\* before its rows and once per row after the row is recorded, and prints
\* nothing past it; invertGN reports at the same points through print.
C9_ProgressInvertCallbackGNPrint ==
    /\ InInvert =>
         /\ ProgressInOrder("dump")
         /\ \A n \in 1..Len(log) : log[n].ev # "print"
         /\ \A n \in 1..Len(log) : log[n].ev = "dump" => log[n].a = <<run.dump>>
    /\ call.op = "invertGN" =>
         /\ ProgressInOrder("print")
         /\ \A n \in 1..Len(log) : log[n].ev # "dump"

\* C9 witness: invertGN has completed over two surveys and printed its progress.
C9_Witness ==
    /\ Completed
    /\ call.op = "invertGN"
    /\ Len(models) = 2
    /\ At("print", 1, 1) # {}

\* C10: a numerical failure in one row (the solve of invertGN, the optimizer
\* of invert) is contained: the models and RMSEs of the run are recorded for
\* every survey all the same.
C10_RowFailureContained ==
    (/\ pc = "idle"
     /\ call.op \in {"invert", "invertGN"}
     /\ call.exc \in {"LinAlgError", "OptimizerError"})
       => (Len(models) = Len(surveys) /\ Len(rmses) = Len(surveys))

\* C11: the previous profile handed to the temporal term of row j is the zero
\* vector for the first row of every survey, and the profile recorded for row
\* j-1 of the same survey otherwise.
C11_PreviousProfile ==
    InInvert =>
      \A n \in 1..Len(log) :
        log[n].ev = "minimize" =>
          IF log[n].j = 0 THEN log[n].b = [k \in 1..Len(conds0) |-> 0]
          ELSE /\ At("write", log[n].i, log[n].j - 1) # {}
               /\ \A m \in At("write", log[n].i, log[n].j - 1) :
                    m < n /\ log[n].b = log[m].a

\* C11 witness: the optimizer has been called for the first row of a second
\* survey and for a later row of it, after rows of the first were recorded.
C11_Witness ==
    /\ InInvert
    /\ At("write", 0, 0) # {}
    /\ At("minimize", 1, 0) # {}
    /\ At("minimize", 1, 1) # {}

\* invert or invertGN is running, or was the last call
InRun == InInvert \/ call.op = "invertGN"

\* the positions of the log where a row is written
Writes == {n \in 1..Len(log) : log[n].ev = "write"}

\* row r (1-based) of the arrays m and q holds what the run wrote for row r-1
\* of survey si, written once
HoldsWritten(m, q, si, r) ==
    /\ Cardinality(At("write", si, r - 1)) = 1
    /\ \A n \in At("write", si, r - 1) : m[r] = log[n].a /\ q[r] = log[n].b

\* C12: within a run of invert or invertGN the rows are written in strict
\* sequence (row j of a survey after rows 0..j-1 of it and after all rows of
\* the earlier surveys), each once, and what is recorded for a row stays as
\* written for the rest of the run.
C12_RowsInSequence ==
    InRun =>
      /\ \A n, m \in Writes :
           n < m => \/ log[n].i < log[m].i
                    \/ log[n].i = log[m].i /\ log[n].j < log[m].j
      /\ \A n \in Writes :
           /\ \A rj \in 0..(log[n].j - 1) :
                \E m \in At("write", log[n].i, rj) : m < n
           /\ \A si \in 0..(log[n].i - 1) :
                \A rj \in 0..(Len(surveys[si + 1].df) - 1) :
                  \E m \in At("write", si, rj) : m < n
      /\ \A s \in 1..Len(models) : \A r \in 1..Len(models[s]) :
           HoldsWritten(models[s], rmses[s], s - 1, r)
      /\ pc \in {"invert_row", "gn_row"} =>
           \A r \in 1..Len(model) :
             IF r <= j THEN HoldsWritten(model, rmse, i, r)
             ELSE /\ At("write", i, r - 1) = {}
                  /\ model[r] = NaNs(Len(conds0))
                  /\ rmse[r] = NaNRoot

\* C12 witness: a run has written both rows of a second survey after the
\* rows of the first.
C12_Witness ==
    /\ InRun
    /\ At("write", 0, 0) # {}
    /\ At("write", 1, 0) # {}
    /\ At("write", 1, 1) # {}

\* v is the mean, to the nearest whole mS/m, of the readings of app that are
\* not missing; nan when every reading is missing
IsMeanOf(v, app) ==
    LET seen == {k \in 1..Len(app) : ~IsNaN(app[k])}
        total == Sum([k \in 1..Len(app) |-> IF k \in seen THEN app[k] ELSE 0])
        n == Cardinality(seen)
    IN  IF n = 0 THEN IsNaN(v)
        ELSE /\ ~IsNaN(v)
             /\ 2 * (v * n - total) <= n
             /\ 2 * (total - v * n) <= n

\* C13: in invertGN every row starts from the uniform profile at the mean of
\* that row's observed readings, whatever the other rows gave; a row is solved
\* once, and the profile written for it is its starting profile plus the
\* solution of that one solve.
C13_OneSolveFromRowMean ==
    call.op = "invertGN" =>
      LET J == buildJacobian(depths0, cspacing, cpos)
          L == buildSecondDiff(Len(J[1]))
      IN  /\ \A n \in 1..Len(log) :
                log[n].ev = "solve" =>
                  LET app == DfValues(surveys[log[n].i + 1], coils)[log[n].j + 1]
                  IN  /\ Len(log[n].a) = Len(conds0)
                      /\ \A k \in 1..Len(conds0) : IsMeanOf(log[n].a[k], app)
                      /\ Cardinality(At("solve", log[n].i, log[n].j)) = 1
          /\ \A m \in Writes :
                /\ m > 1
                /\ log[m - 1].ev = "solve"
                /\ log[m - 1].i = log[m].i
                /\ log[m - 1].j = log[m].j
                /\ log[m].a = [k \in 1..Len(conds0) |->
                                 Add(log[m - 1].a[k],
                                     solve(LHSOf(run, J, L), log[m - 1].b)[k])]

\* C13 witness: invertGN has ended after solving the second row of a survey
\* whose first row gave another profile than the second row's start.
C13_Witness ==
    /\ call.op = "invertGN"
    /\ call.exc = "none"
    /\ \E n \in At("solve", 0, 1) : \E m \in At("write", 0, 0) :
         log[n].a # log[m].a /\ ~HasNaN(log[m].a)

\* C14: invertGN with alpha_ref given raises no IndexError, for any number of
\* surveys, and the last entry of every right-hand side it solves is alpha_ref
\* times the last layer of the row's current profile.
C14_LastLayerPinned ==
    (call.op = "invertGN" /\ run.pin) =>
      /\ call.exc # "IndexError"
      /\ \A n \in 1..Len(log) :
           log[n].ev = "solve" =>
             log[n].b[Len(log[n].b)] = Mul(run.alpha_ref, log[n].a[Len(log[n].a)])

\* the root-mean-square misfit of profile out against the readings app under
\* the cumulative-sensitivity forward model evaluated with depth profile d
RmseAtDepths(d, out, app) ==
    SqrtOf(Sum([k \in 1..Len(app) |->
                  Mul(Sub(app[k], fCS(out, d, cspacing, cpos, hx[1])[k]),
                      Sub(app[k], fCS(out, d, cspacing, cpos, hx[1])[k]))]),
           Len(app))

\* C15: once setDepths has stored a profile, a run of invert or invertGN with
\* the cumulative-sensitivity model evaluates the forward model with the stored
\* profile: the misfit it records for every row is the misfit of that row's
\* profile at the stored depths.
C15_RunUsesSetDepths ==
    (InRun /\ run.forwardModel = "CS" /\ depths # <<>>) =>
      \A n \in Writes :
        log[n].b = RmseAtDepths(depths, log[n].a,
                                DfValues(surveys[log[n].i + 1], coils)[log[n].j + 1])

====
